---------------------------- MODULE Spec2Model ----------------------------
(***************************************************************************)
(* Model of rust/vectordb/src/index/vector.rs: the IvfPQIndexBuilder, its  *)
(* six setters, the VectorIndexBuilder getters and build().                *)
(*                                                                         *)
(* An Option<T> is a sequence of length 0 (None) or 1 (Some(v)).           *)
(* `self` is the builder; `hist` records, per setter, the argument of its  *)
(* most recent call (None when it was never called); `op` is the name of   *)
(* the last operation called (a getter called in a state returns the       *)
(* getter's value in that state); `result` is the value returned by the    *)
(* last build() call when no setter has been called since (None            *)
(* otherwise) and `builds` counts the build() calls since the last setter  *)
(* call, up to MaxBuilds; `over` is the most recent overwrite: the         *)
(* setter's field and the value it replaced.                               *)
(***************************************************************************)
EXTENDS Naturals, Sequences, FiniteSets

VARIABLES self, hist, op, result, builds, over

vars == <<self, hist, op, result, builds, over>>

None == <<>>
Some(v) == <<v>>

(* Bounds on the inputs the setters are called with. *)
MaxNumPartitions == 1
MaxNumSubVectors == 1

(* The count of consecutive build() calls saturates here. *)
MaxBuilds == 2

Strings == {"c", "index"}
MetricTypes == {"L2", "Cosine", "Dot"}

(* The metric types metric_type() is called with. *)
MetricArgs == {"L2", "Cosine"}

(* IvfBuildParams::default() and IvfBuildParams::new(n).  The default      *)
(* records are the lance crate's; the builder only passes them on.         *)
IvfDefault == [num_partitions |-> 32, max_iters |-> 50]
IvfNew(n) == [IvfDefault EXCEPT !.num_partitions = n]

(* PQBuildParams::default(). *)
PQDefault ==
    [num_sub_vectors |-> 16, num_bits |-> 8, metric_type |-> "L2",
     use_opq |-> FALSE, max_iters |-> 50, max_opq_iters |-> 50]

(* The records the tests pass to the setters. *)
IvfTest == IvfNew(500)
PQTest ==
    [PQDefault EXCEPT !.use_opq = TRUE, !.max_iters = 1, !.num_bits = 8,
                      !.num_sub_vectors = 50, !.metric_type = "Cosine",
                      !.max_opq_iters = 2]

(* Input records, malformed ones (zero partitions, zero sub-vectors) included. *)
IvfRecords ==
    {IvfDefault, IvfTest}
      \cup {[num_partitions |-> n, max_iters |-> 1] : n \in 0..MaxNumPartitions}
PQRecords ==
    {PQDefault, PQTest}
      \cup {[PQDefault EXCEPT !.num_sub_vectors = n, !.metric_type = "Dot"] :
               n \in 0..MaxNumSubVectors}

(* StageParams::Ivf / StageParams::PQ *)
StageIvf(p) == [kind |-> "Ivf", params |-> p]
StagePQ(p) == [kind |-> "PQ", params |-> p]

(* VectorIndexParams::with_ivf_pq_params(metric_type, ivf, pq) *)
with_ivf_pq_params(m, ivf, pq) ==
    [stages |-> <<StageIvf(ivf), StagePQ(pq)>>, metric_type |-> m]

(* Option::unwrap_or *)
unwrap_or(o, d) == IF o = None THEN d ELSE o[1]

(* new() with the stage defaults already stored in the builder. *)
new_defaulted ==
    [column |-> None, index_name |-> None, metric_type |-> None,
     ivf_params |-> Some(IvfDefault), pq_params |-> Some(PQDefault),
     replace |-> TRUE]

(* IvfPQIndexBuilder::new *)
new ==
    [column |-> None, index_name |-> None, metric_type |-> None,
     ivf_params |-> None, pq_params |-> None, replace |-> TRUE]

(* The setters, as functions from the builder and the argument to the builder. *)
column(s, c) == [s EXCEPT !.column = Some(c)]

(* index_name() storing into the column field. *)
index_name_into_column(s, n) == [s EXCEPT !.column = Some(n)]

index_name(s, n) == [s EXCEPT !.index_name = Some(n)]
metric_type(s, m) == [s EXCEPT !.metric_type = Some(m)]

(* ivf_params() keeping a record that is already set (get_or_insert). *)
ivf_params_first(s, p) ==
    IF s.ivf_params = None THEN [s EXCEPT !.ivf_params = Some(p)] ELSE s

ivf_params(s, p) == [s EXCEPT !.ivf_params = Some(p)]

(* pq_params() putting the builder's metric type, when set, into the record. *)
pq_params_with_metric(s, p) ==
    [s EXCEPT !.pq_params =
        Some([p EXCEPT !.metric_type = unwrap_or(s.metric_type, @)])]

pq_params(s, p) == [s EXCEPT !.pq_params = Some(p)]

(* replace() storing the flag only when it sets it. *)
replace_set_only(s, b) == [s EXCEPT !.replace = @ \/ b]

replace(s, b) == [s EXCEPT !.replace = b]

(* The VectorIndexBuilder methods, as functions of the builder. *)
get_column(s) == s.column
get_index_name(s) == s.index_name
get_replace(s) == s.replace

(* build() with the default PQ record's optimized-PQ flag on. *)
build_opq_default(s) ==
    LET ivf == unwrap_or(s.ivf_params, IvfDefault)
        pq == unwrap_or(s.pq_params, [PQDefault EXCEPT !.use_opq = TRUE])
    IN  with_ivf_pq_params(pq.metric_type, ivf, pq)

(* build() taking the overall metric type from the builder's own field. *)
build_self_metric(s) ==
    LET ivf == unwrap_or(s.ivf_params, IvfDefault)
        pq == unwrap_or(s.pq_params, PQDefault)
    IN  with_ivf_pq_params(unwrap_or(s.metric_type, pq.metric_type), ivf, pq)

(* build() with unwrap() for unwrap_or(): no pipeline when a record is absent. *)
build_unwrap(s) ==
    IF s.ivf_params = None \/ s.pq_params = None
    THEN [stages |-> <<>>, metric_type |-> "panic"]
    ELSE with_ivf_pq_params(s.pq_params[1].metric_type,
                            s.ivf_params[1], s.pq_params[1])

build(s) ==
    LET ivf == unwrap_or(s.ivf_params, IvfDefault)
        pq == unwrap_or(s.pq_params, PQDefault)
    IN  with_ivf_pq_params(pq.metric_type, ivf, pq)

(* No setter has been called yet. *)
NoHist ==
    [column |-> None, index_name |-> None, metric_type |-> None,
     ivf_params |-> None, pq_params |-> None, replace |-> None]

Init ==
    /\ self = new
    /\ hist = NoHist
    /\ op = "new"
    /\ result = None
    /\ builds = 0
    /\ over = None

(* A setter call: the builder changes, earlier build() results are stale. *)
Setter(name, field, s, v) ==
    /\ self' = s
    /\ hist' = [hist EXCEPT ![field] = Some(v)]
    /\ op' = name
    /\ result' = None
    /\ builds' = 0
    /\ over' = IF hist[field] # None /\ hist[field] # Some(v)
                THEN Some([field |-> field, old |-> hist[field]])
                ELSE over

CallColumn(c) == Setter("column", "column", column(self, c), c)
CallIndexName(n) == Setter("index_name", "index_name", index_name(self, n), n)
CallMetricType(m) == Setter("metric_type", "metric_type", metric_type(self, m), m)
CallIvfParams(p) == Setter("ivf_params", "ivf_params", ivf_params(self, p), p)
CallPqParams(p) == Setter("pq_params", "pq_params", pq_params(self, p), p)
CallReplace(b) == Setter("replace", "replace", replace(self, b), b)

(* A getter call takes &self and returns a value. *)
Getter(name) ==
    /\ op' = name
    /\ UNCHANGED <<self, hist, result, builds, over>>

CallGetColumn == Getter("get_column")
CallGetIndexName == Getter("get_index_name")
CallGetReplace == Getter("get_replace")

(* build() with take() for clone(): the records leave the builder. *)
CallBuild_take ==
    /\ result' = Some(build(self))
    /\ builds' = IF builds < MaxBuilds THEN builds + 1 ELSE builds
    /\ op' = "build"
    /\ self' = [self EXCEPT !.ivf_params = None, !.pq_params = None]
    /\ UNCHANGED <<hist, over>>

(* build() storing the resolved records into the builder. *)
CallBuild_store ==
    /\ result' = Some(build(self))
    /\ builds' = IF builds < MaxBuilds THEN builds + 1 ELSE builds
    /\ op' = "build"
    /\ self' = [self EXCEPT
                  !.ivf_params = Some(unwrap_or(@, IvfDefault)),
                  !.pq_params = Some(unwrap_or(@, PQDefault))]
    /\ UNCHANGED <<hist, over>>

(* build(&self): returns the pipeline, the builder is only read. *)
CallBuild ==
    /\ result' = Some(build(self))
    /\ builds' = IF builds < MaxBuilds THEN builds + 1 ELSE builds
    /\ op' = "build"
    /\ UNCHANGED <<self, hist, over>>

Next ==
    \/ \E c \in Strings : CallColumn(c)
    \/ \E n \in Strings : CallIndexName(n)
    \/ \E m \in MetricArgs : CallMetricType(m)
    \/ \E p \in IvfRecords : CallIvfParams(p)
    \/ \E p \in PQRecords : CallPqParams(p)
    \/ \E b \in BOOLEAN : CallReplace(b)
    \/ CallGetColumn
    \/ CallGetIndexName
    \/ CallGetReplace
    \/ CallBuild

Spec == Init /\ [][Next]_vars

-----------------------------------------------------------------------------
(* The pipeline returned by the last build() call. *)
Pipeline == result[1]
Built == result # None

(* The fields of the builder that are Options. *)
OptFields == {"column", "index_name", "metric_type", "ivf_params", "pq_params"}

StageFieldsIvf == {"num_partitions", "max_iters"}
StageFieldsPQ ==
    {"num_sub_vectors", "num_bits", "metric_type", "use_opq", "max_iters",
     "max_opq_iters"}

(* C1: build() on a builder on which no setter was called returns exactly  *)
(* two stages, an IVF stage equal to the IVF default record and then a PQ  *)
(* stage equal to the PQ default record, whose optimized-PQ flag is false. *)
C1_DefaultResolution ==
    (Built /\ hist = NoHist) =>
        /\ Len(Pipeline.stages) = 2
        /\ Pipeline.stages[1].kind = "Ivf"
        /\ \A k \in StageFieldsIvf :
              Pipeline.stages[1].params[k] = IvfDefault[k]
        /\ Pipeline.stages[2].kind = "PQ"
        /\ \A k \in StageFieldsPQ :
              Pipeline.stages[2].params[k] = PQDefault[k]
        /\ Pipeline.stages[2].params.use_opq = FALSE

C1_Witness == Built /\ hist = NoHist /\ op = "build"

(* C2: the IVF stage of the pipeline equals the record last passed to      *)
(* ivf_params() and the PQ stage the record last passed to pq_params(),    *)
(* malformed records included and whatever the other setters were given;   *)
(* a stage whose setter was never called equals its default record.        *)
C2_OverridePropagation ==
    Built =>
        /\ Len(Pipeline.stages) = 2
        /\ hist.ivf_params # None =>
              Pipeline.stages[1] = [kind |-> "Ivf", params |-> hist.ivf_params[1]]
        /\ hist.ivf_params = None =>
              Pipeline.stages[1] = [kind |-> "Ivf", params |-> IvfDefault]
        /\ hist.pq_params # None =>
              Pipeline.stages[2] = [kind |-> "PQ", params |-> hist.pq_params[1]]
        /\ hist.pq_params = None =>
              Pipeline.stages[2] = [kind |-> "PQ", params |-> PQDefault]

C2_Witness ==
    /\ Built
    /\ hist.ivf_params = Some(IvfTest)
    /\ hist.pq_params # None
    /\ hist.pq_params[1].num_sub_vectors = 0
    /\ hist.metric_type = Some("Cosine")
    /\ hist.column = Some("c")
    /\ hist.index_name = Some("index")
    /\ hist.replace = Some(FALSE)

(* C3: the overall metric type of a returned pipeline is the metric type   *)
(* of the PQ stage of that pipeline (the default PQ record's when          *)
(* pq_params() was never called), and a metric_type() call changes neither *)
(* the overall metric type nor a stage of what build() returns.            *)
C3_MetricFromPQ ==
    [][ /\ Built' =>
            /\ Len(Pipeline'.stages) = 2
            /\ Pipeline'.metric_type = Pipeline'.stages[2].params.metric_type
            /\ hist'.pq_params = None =>
                  Pipeline'.metric_type = PQDefault.metric_type
        /\ op' = "metric_type" => build(self') = build(self) ]_vars

C3_Witness ==
    /\ Built
    /\ hist.metric_type = Some("Cosine")
    /\ hist.pq_params # None
    /\ Pipeline.metric_type = "Dot"

(* C4: a build() call leaves all six fields of the builder as they were,   *)
(* so the getters return the same values after it as before it.            *)
C4_BuildDoesNotMutate ==
    [][ op' = "build" =>
            /\ \A f \in OptFields \cup {"replace"} : self'[f] = self[f]
            /\ get_column(self') = get_column(self)
            /\ get_index_name(self') = get_index_name(self)
            /\ get_replace(self') = get_replace(self) ]_vars

C4_Witness ==
    /\ op = "build"
    /\ builds = MaxBuilds
    /\ self.column # None
    /\ self.ivf_params = None
    /\ self.pq_params # None
    /\ self.replace = FALSE

(* C5: a build() call that follows a build() call with no setter call in   *)
(* between returns a pipeline equal to the earlier one, and what build()   *)
(* returned is what it returns for the builder's current fields.           *)
C5_BuildIdempotent ==
    [][ /\ (op' = "build" /\ Built) => result' = result
        /\ Built' => Pipeline' = build(self') ]_vars

C5_Witness ==
    /\ op = "build"
    /\ builds >= 2
    /\ hist.ivf_params # None
    /\ hist.pq_params # None

(* C6: when a setter has been called with A and later with a different B,  *)
(* the field holds B; for ivf_params() and pq_params() the stage of the    *)
(* pipeline then built equals B in every field and is not A.               *)
C6_LastWriteWins ==
    over # None =>
        LET f == over[1].field
            A == over[1].old[1]
            B == hist[f][1]
        IN  /\ A # B
            /\ f \in OptFields => self[f] = Some(B)
            /\ f = "replace" => self.replace = B
            /\ (Built /\ f = "ivf_params") =>
                  /\ Len(Pipeline.stages) = 2
                  /\ \A k \in StageFieldsIvf : Pipeline.stages[1].params[k] = B[k]
                  /\ Pipeline.stages[1].params # A
            /\ (Built /\ f = "pq_params") =>
                  /\ Len(Pipeline.stages) = 2
                  /\ \A k \in StageFieldsPQ : Pipeline.stages[2].params[k] = B[k]
                  /\ Pipeline.stages[2].params # A

C6_Witness ==
    /\ Built
    /\ over # None
    /\ over[1].field = "ivf_params"
    /\ over[1].old = Some(IvfTest)
    /\ hist.pq_params # None

(* C7: get_replace() returns true when replace() was never called and the  *)
(* argument of the last replace() call otherwise, whatever other           *)
(* operations were called.                                                 *)
C7_ReplaceFlag ==
    /\ hist.replace = None => get_replace(self) = TRUE
    /\ hist.replace # None => get_replace(self) = hist.replace[1]

C7_Witness ==
    /\ op = "get_replace"
    /\ hist.replace = Some(FALSE)
    /\ get_replace(self) = FALSE
    /\ hist.column # None
    /\ Built

C9_NoDefaultsStored ==
    \A f \in OptFields : (self[f] # None) <=> (hist[f] # None)

C9_Witness ==
    /\ op = "build"
    /\ self.ivf_params = None
    /\ self.pq_params = None
    /\ self.column # None
    /\ self.metric_type = None

(* C10: every build() call returns a pipeline of exactly two stages, the   *)
(* first tagged IVF and the second tagged PQ.                              *)
C10_FixedShape ==
    /\ op = "build" => Built
    /\ Built =>
        /\ Len(Pipeline.stages) = 2
        /\ Pipeline.stages[1].kind = "Ivf"
        /\ Pipeline.stages[2].kind = "PQ"

C10_Witness ==
    /\ Built
    /\ hist.ivf_params = None
    /\ hist.pq_params # None
    /\ hist.metric_type # None
    /\ hist.replace # None

=============================================================================
